---- MODULE Spec2Model ----
(***************************************************************************)
(* A model of the probabilistically balanced hash trie of src/src/trie.rs  *)
(* (Trie<X>, its placement algorithm mfn/root_mfn/extend, the eliminators  *)
(* elim/find/is_empty/split_atomic, the folds trie_fold, trie_fold_seq and *)
(* trie_fold_up, and the Map view).                                        *)
(*                                                                         *)
(* Tries are records tagged Nil/Leaf/Bin/Root/Name/Art.  Elements are      *)
(* pairs <<key, payload>>: a Set<X> is Trie<(X, ())>, so a set element is  *)
(* <<x, Unit>>; a Map<Dom,Cod> element is <<d, c>>.  The hash of an        *)
(* element (std DefaultHasher) is an unknown function of the element: the  *)
(* initial state draws it from the functions into a set of hash values.    *)
(* The tuple hash of (x, ()) feeds x and then nothing into the hasher, so  *)
(* it equals the hash of x alone; the hash of (d, c) with a real payload   *)
(* is another, independent value.  Hashes are modelled as naturals: mfn    *)
(* reads a u64 with % 2 and >> 1, find reads the same bits of the i64 cast *)
(* (an odd negative i64 has i % 2 = -1, which also selects the right       *)
(* child), so only the bit pattern matters.                                *)
(***************************************************************************)
EXTENDS Integers, Sequences, FiniteSets, TLC

(***************************************************************************)
(* Bounds of the model.                                                    *)
(***************************************************************************)
NumKeys == 3

Keys == 1..NumKeys
Unit == 0
SetElems == Keys \X {Unit}

(***************************************************************************)
(* adapton::bitstring.  MAX_LEN is the number of hash bits a path may      *)
(* consume; the model runs the algorithm at a small width, and the hash    *)
(* values below are one bit wider, so that two hashes can agree in all     *)
(* MAX_LEN bits a path can consume.                                        *)
(***************************************************************************)
MAX_LEN == 3

RECURSIVE pow(_, _)
pow(b, n) == IF n <= 0 THEN 1 ELSE b * pow(b, n - 1)

RECURSIVE BitAnd(_, _)
BitAnd(a, b) ==
  IF a = 0 \/ b = 0 THEN 0
  ELSE (IF a % 2 = 1 /\ b % 2 = 1 THEN 1 ELSE 0) + 2 * BitAnd(a \div 2, b \div 2)

RECURSIVE BitXor(_, _)
BitXor(a, b) ==
  IF a = 0 THEN b
  ELSE IF b = 0 THEN a
  ELSE (IF a % 2 = b % 2 THEN 0 ELSE 1) + 2 * BitXor(a \div 2, b \div 2)

flip(i, b) == BitXor(b, pow(2, i))

length(bs) == bs.length

prepend(b, bs) ==
  [length |-> bs.length + 1,
   value  |-> IF b = 0 THEN bs.value ELSE flip(bs.length, bs.value)]

mtbs == [length |-> 0, value |-> 0]

(***************************************************************************)
(* adapton::engine: names and articulations.  A name is a sequence: an     *)
(* atom followed by the fork choices (1 = left, 2 = right) made from it.   *)
(* An articulation holds the value that forcing it yields; a thunk keeps   *)
(* the name it was made under, put makes an unnamed cell.                  *)
(***************************************************************************)
NoName == << >>
name_unit == <<10>>
name_trie_empty == <<11>>
name_of_usize(i) == <<20 + i>>

name_fork(nm) == <<Append(nm, 1), Append(nm, 2)>>

put(v) == [kind |-> "put", nm |-> NoName, val |-> v]
thunk(nm, v) == [kind |-> "thunk", nm |-> nm, val |-> v]
force(a) == a.val

Names == {name_unit, name_of_usize(0)}

(***************************************************************************)
(* Hash values the elements may take.  Values are chosen so that two       *)
(* elements can differ in bit 0, agree in bit 0 and differ in bit 1,       *)
(* differ first in bit MAX_LEN - 1, or agree in all MAX_LEN low bits.      *)
(***************************************************************************)
HashVals == {0, 1, 2, 3, pow(2, MAX_LEN - 1), pow(2, MAX_LEN)}

VARIABLES
  hk,      \* hash of a key alone, equal to the hash of <<key, Unit>>
  hkv,     \* hash of a pair <<key, value>> with a real payload
  din,     \* the min_depth handed to empty
  trie,    \* the current trie value
  added,   \* the elements handed to extend so far
  status   \* "ok", or "panic" once an operation aborted

vars == <<hk, hkv, din, trie, added, status>>

Hash(e) == IF e[2] = Unit THEN hk[e[1]] ELSE hkv[e]

(***************************************************************************)
(* Trie<X> and its constructors.                                           *)
(***************************************************************************)
Panic == [tag |-> "Panic"]
NoneV == [tag |-> "None"]
Some(x) == [tag |-> "Some", v |-> x]

Meta(d) == [min_depth |-> d]

nil(bs) == [tag |-> "Nil", bs |-> bs]
leaf(bs, x) == [tag |-> "Leaf", bs |-> bs, x |-> x]
bin(bs, l, r) == [tag |-> "Bin", bs |-> bs, l |-> l, r |-> r]
root(meta, t) == [tag |-> "Root", meta |-> meta, t |-> t]
name(nm, t) == [tag |-> "Name", nm |-> nm, t |-> t]
art(a) == [tag |-> "Art", a |-> a]

\* A constructor call whose argument evaluation panicked unwinds.
unwind(l, r, v) == IF l = Panic \/ r = Panic THEN Panic ELSE v

Min(a, b) == IF a <= b THEN a ELSE b

empty_no_clamp(meta) ==
  LET nm1 == name_fork(name_trie_empty)[1]
      nm2 == name_fork(name_trie_empty)[2]
      nil_art == thunk(nm2, nil(mtbs))
      root_art == thunk(nm1, root(meta, name(nm2, art(nil_art))))
  IN name(nm1, art(root_art))

empty(meta) ==
  LET min == Min(meta.min_depth, MAX_LEN)
      m == Meta(min)
      nm1 == name_fork(name_trie_empty)[1]
      nm2 == name_fork(name_trie_empty)[2]
      nil_art == thunk(nm2, nil(mtbs))
      root_art == thunk(nm1, root(m, name(nm2, art(nil_art))))
  IN name(nm1, art(root_art))

(***************************************************************************)
(* TrieElim::split_atomic                                                  *)
(***************************************************************************)
suffix_low_bit(bs, k) == k % 2 = 1

suffix(bs, k) == BitAnd(bs.value, k) = bs.value

split_atomic_keeps_path(t) ==
  IF t.tag = "Nil" \/ t.tag = "Bin" THEN t
  ELSE IF t.tag = "Leaf" THEN
    LET bs0 == prepend(0, t.bs)
        bs1 == prepend(1, t.bs)
    IN IF suffix(bs1, Hash(t.x))
       THEN bin(t.bs, nil(bs0), leaf(t.bs, t.x))
       ELSE bin(t.bs, leaf(t.bs, t.x), nil(bs1))
  ELSE Panic

split_atomic(t) ==
  IF t.tag = "Nil" \/ t.tag = "Bin" THEN t
  ELSE IF t.tag = "Leaf" THEN
    LET bs0 == prepend(0, t.bs)
        bs1 == prepend(1, t.bs)
    IN IF suffix(bs1, Hash(t.x))
       THEN bin(t.bs, nil(bs0), leaf(bs1, t.x))
       ELSE bin(t.bs, leaf(bs0, t.x), nil(bs1))
  ELSE Panic

(***************************************************************************)
(* Trie::mfn, the placement recursion, and its guards.                     *)
(***************************************************************************)
mfn_force_branch_off_by_one(meta, bs) == length(bs) + 1 < meta.min_depth

mfn_force_branch_past_max(meta, bs) ==
  length(bs) < meta.min_depth \/ length(bs) < MAX_LEN + 1

mfn_force_branch(meta, bs) == length(bs) < meta.min_depth

mfn_keep_leaf_only_at_max(depth, e, elt) == depth >= MAX_LEN

mfn_keep_leaf(depth, e, elt) == depth >= MAX_LEN \/ e = elt

RECURSIVE mfn_forces_art(_, _, _, _, _, _)
mfn_forces_art(nm, meta, t, bs, elt, hash) ==
  IF t.tag = "Nil" /\ mfn_force_branch(meta, bs) THEN
    LET h_ == hash \div 2
        bs0 == prepend(0, bs)
        bs1 == prepend(1, bs)
        mt0 == nil(bs0)
        mt1 == nil(bs1)
    IN IF hash % 2 = 0
       THEN LET l == mfn_forces_art(nm, meta, mt0, bs0, elt, h_) IN unwind(l, mt1, bin(bs, l, mt1))
       ELSE LET r == mfn_forces_art(nm, meta, mt1, bs1, elt, h_) IN unwind(mt0, r, bin(bs, mt0, r))
  ELSE IF t.tag = "Nil" THEN leaf(bs, elt)
  ELSE IF t.tag = "Leaf" THEN
    LET depth == length(bs)
        e == t.x
    IN IF mfn_keep_leaf(depth, e, elt) THEN leaf(bs, e)
       ELSE IF depth < MAX_LEN
         THEN LET s == split_atomic(leaf(bs, e))
              IN IF s = Panic THEN Panic ELSE mfn_forces_art(nm, meta, s, bs, elt, hash)
         ELSE Panic
  ELSE IF t.tag = "Bin" THEN
    LET h_ == hash \div 2
    IN IF hash % 2 = 0
       THEN LET l == mfn_forces_art(nm, meta, t.l, prepend(0, t.bs), elt, h_)
            IN unwind(l, t.r, bin(t.bs, l, t.r))
       ELSE LET r == mfn_forces_art(nm, meta, t.r, prepend(1, t.bs), elt, h_)
            IN unwind(t.l, r, bin(t.bs, t.l, r))
  ELSE IF t.tag = "Name" /\ t.t.tag = "Art" THEN mfn_forces_art(nm, meta, force(t.t.a), bs, elt, hash)
  ELSE IF t.tag = "Art" THEN mfn_forces_art(nm, meta, force(t.a), bs, elt, hash)
  ELSE Panic

RECURSIVE mfn(_, _, _, _, _, _)
mfn(nm, meta, t, bs, elt, hash) ==
  IF t.tag = "Nil" /\ mfn_force_branch(meta, bs) THEN
    LET h_ == hash \div 2
        bs0 == prepend(0, bs)
        bs1 == prepend(1, bs)
        mt0 == nil(bs0)
        mt1 == nil(bs1)
    IN IF hash % 2 = 0
       THEN LET l == mfn(nm, meta, mt0, bs0, elt, h_) IN unwind(l, mt1, bin(bs, l, mt1))
       ELSE LET r == mfn(nm, meta, mt1, bs1, elt, h_) IN unwind(mt0, r, bin(bs, mt0, r))
  ELSE IF t.tag = "Nil" THEN leaf(bs, elt)
  ELSE IF t.tag = "Leaf" THEN
    LET depth == length(bs)
        e == t.x
    IN IF mfn_keep_leaf(depth, e, elt) THEN leaf(bs, e)
       ELSE IF depth < MAX_LEN
         THEN LET s == split_atomic(leaf(bs, e))
              IN IF s = Panic THEN Panic ELSE mfn(nm, meta, s, bs, elt, hash)
         ELSE Panic
  ELSE IF t.tag = "Bin" THEN
    LET h_ == hash \div 2
    IN IF hash % 2 = 0
       THEN LET l == mfn(nm, meta, t.l, prepend(0, t.bs), elt, h_)
            IN unwind(l, t.r, bin(t.bs, l, t.r))
       ELSE LET r == mfn(nm, meta, t.r, prepend(1, t.bs), elt, h_)
            IN unwind(t.l, r, bin(t.bs, t.l, r))
  ELSE IF t.tag = "Name" /\ t.t.tag = "Art" THEN mfn(nm, meta, force(t.t.a), bs, elt, hash)
  ELSE Panic

(***************************************************************************)
(* Trie::root_mfn and TrieIntro::extend / singleton.                       *)
(***************************************************************************)
RECURSIVE root_mfn_bare_subtree(_, _, _, _)
root_mfn_bare_subtree(nm0, nm, t, elt) ==
  IF t.tag = "Name" /\ t.t.tag = "Art" THEN
    LET f == force(t.t.a)
    IN IF f.tag = "Root" THEN
         LET nm_ == name_fork(nm)[2]
             a == mfn(nm_, f.meta, f.t, mtbs, elt, Hash(elt))
         IN IF a = Panic THEN Panic
            ELSE root(f.meta, a)
       ELSE IF f.tag = "Name" /\ f.t.tag = "Art" THEN root_mfn_bare_subtree(nm, nm, f, elt)
       ELSE Panic
  ELSE Panic

RECURSIVE root_mfn_accepts_bare(_, _, _, _)
root_mfn_accepts_bare(nm0, nm, t, elt) ==
  IF t.tag = "Name" /\ t.t.tag = "Art" THEN
    LET f == force(t.t.a)
    IN IF f.tag = "Root" THEN
         LET nmA == name_fork(nm)[1]
             nm_ == name_fork(nm)[2]
             a == mfn(nm_, f.meta, f.t, mtbs, elt, Hash(elt))
         IN IF a = Panic THEN Panic
            ELSE root(f.meta, name(nmA, art(put(a))))
       ELSE IF f.tag = "Name" /\ f.t.tag = "Art" THEN root_mfn_accepts_bare(nm, nm, f, elt)
       ELSE Panic
  ELSE IF t.tag = "Root" THEN
    LET nmA == name_fork(nm)[1]
        nm_ == name_fork(nm)[2]
        a == mfn(nm_, t.meta, t.t, mtbs, elt, Hash(elt))
    IN IF a = Panic THEN Panic
       ELSE root(t.meta, name(nmA, art(put(a))))
  ELSE Panic

RECURSIVE root_mfn_reuses_name(_, _, _, _)
root_mfn_reuses_name(nm0, nm, t, elt) ==
  IF t.tag = "Name" /\ t.t.tag = "Art" THEN
    LET f == force(t.t.a)
    IN IF f.tag = "Root" THEN
         LET nm_ == name_fork(nm)[2]
             a == mfn(nm_, f.meta, f.t, mtbs, elt, Hash(elt))
         IN IF a = Panic THEN Panic
            ELSE root(f.meta, name(nm0, art(put(a))))
       ELSE IF f.tag = "Name" /\ f.t.tag = "Art" THEN root_mfn_reuses_name(nm, nm, f, elt)
       ELSE Panic
  ELSE Panic

RECURSIVE root_mfn(_, _, _, _)
root_mfn(nm0, nm, t, elt) ==
  IF t.tag = "Name" /\ t.t.tag = "Art" THEN
    LET f == force(t.t.a)
    IN IF f.tag = "Root" THEN
         LET nmA == name_fork(nm)[1]
             nm_ == name_fork(nm)[2]
             a == mfn(nm_, f.meta, f.t, mtbs, elt, Hash(elt))
         IN IF a = Panic THEN Panic
            ELSE root(f.meta, name(nmA, art(put(a))))
       ELSE IF f.tag = "Name" /\ f.t.tag = "Art" THEN root_mfn(nm, nm, f, elt)
       ELSE Panic
  ELSE Panic

extend_fixed_name(nm, t, elt) ==
  LET nmA == name_fork(name_unit)[1]
      nm_ == name_fork(name_unit)[2]
      r == root_mfn(nmA, nm_, t, elt)
  IN IF r = Panic THEN Panic ELSE name(nmA, art(put(r)))

extend(nm, t, elt) ==
  LET nmA == name_fork(nm)[1]
      nm_ == name_fork(nm)[2]
      r == root_mfn(nmA, nm_, t, elt)
  IN IF r = Panic THEN Panic ELSE name(nmA, art(put(r)))

singleton(meta, nm, elt) == extend(nm, empty(meta), elt)

(***************************************************************************)
(* TrieElim::elim_ref forces articulations until a structural node or a    *)
(* Name is reached; find and is_empty dispatch on that node.               *)
(***************************************************************************)
RECURSIVE elim_ref(_)
elim_ref(t) == IF t.tag = "Art" THEN elim_ref(force(t.a)) ELSE t

find_leaf(elt, x) == IF elt = x THEN Some(x) ELSE NoneV

RECURSIVE find(_, _, _)
find(t, elt, i) ==
  LET n == elim_ref(t)
  IN IF n.tag = "Nil" THEN NoneV
     ELSE IF n.tag = "Leaf" THEN find_leaf(elt, n.x)
     ELSE IF n.tag = "Bin" THEN
       IF i % 2 = 0 THEN find(n.l, elt, i \div 2) ELSE find(n.r, elt, i \div 2)
     ELSE find(n.t, elt, i)

RECURSIVE is_empty_leaf_true(_)
is_empty_leaf_true(t) ==
  LET n == elim_ref(t)
  IN IF n.tag = "Nil" THEN TRUE
     ELSE IF n.tag = "Leaf" THEN TRUE
     ELSE IF n.tag = "Bin" THEN FALSE
     ELSE is_empty_leaf_true(n.t)

RECURSIVE is_empty(_)
is_empty(t) ==
  LET n == elim_ref(t)
  IN IF n.tag = "Nil" THEN TRUE
     ELSE IF n.tag = "Leaf" THEN FALSE
     ELSE IF n.tag = "Bin" THEN FALSE
     ELSE is_empty(n.t)

\* Set membership: hash the element, find it by that hash.
mem(set, x) == find(set, <<x, Unit>>, Hash(<<x, Unit>>)) # NoneV

(***************************************************************************)
(* The Map view: MapIntro::empty / update and MapElim::find.  update       *)
(* extends with the pair (d, c), which root_mfn places by the hash of the  *)
(* pair; find descends by the hash of the key d alone and compares only    *)
(* the key at a Leaf.                                                      *)
(***************************************************************************)
map_empty == empty(Meta(1))

update(map, d, c) == extend(name_unit, map, <<d, c>>)

find_hash_leaf_any_key(d, x) == Some(x[2])

find_hash_leaf(d, x) == IF d = x[1] THEN Some(x[2]) ELSE NoneV

RECURSIVE find_hash(_, _, _)
find_hash(map, d, i) ==
  LET n == elim_ref(map)
  IN IF n.tag = "Nil" THEN NoneV
     ELSE IF n.tag = "Leaf" THEN find_hash_leaf(d, n.x)
     ELSE IF n.tag = "Bin" THEN
       IF i % 2 = 0 THEN find_hash(n.l, d, i \div 2) ELSE find_hash(n.r, d, i \div 2)
     ELSE find_hash(n.t, d, i)

map_find(map, d) == find_hash(map, d, hk[d])

(***************************************************************************)
(* TrieElim::elim / elim_arg: the node a handler is dispatched on.  The    *)
(* handler invoked is the one of that node's tag, with that node's fields. *)
(* memo! makes a thunk of the computation under the name and forces it.    *)
(***************************************************************************)
RECURSIVE elim_through_name(_)
elim_through_name(t) ==
  IF t.tag = "Art" THEN elim_through_name(force(t.a))
  ELSE IF t.tag = "Name" THEN elim_through_name(t.t)
  ELSE t

RECURSIVE elim(_)
elim(t) == IF t.tag = "Art" THEN elim(force(t.a)) ELSE t

RECURSIVE elim_arg(_)
elim_arg(t) == IF t.tag = "Art" THEN elim_arg(force(t.a)) ELSE t

memo(nm, v) == force(thunk(nm, v))

(***************************************************************************)
(* trie_fold with the leaf functions used on it: the cons of list_of_trie  *)
(* (ListIntro::cons(elt, list)) and a counter.                             *)
(***************************************************************************)
leaf_fn(f, x, arg) == IF f = "cons" THEN <<x>> \o arg ELSE arg + 1

RECURSIVE trie_fold_right_first(_, _, _)
trie_fold_right_first(t, res, f) ==
  LET n == elim_arg(t)
  IN IF n.tag = "Nil" THEN res
     ELSE IF n.tag = "Leaf" THEN leaf_fn(f, n.x, res)
     ELSE IF n.tag = "Bin" THEN
       trie_fold_right_first(n.l, trie_fold_right_first(n.r, res, f), f)
     ELSE IF n.tag = "Root" THEN trie_fold_right_first(n.t, res, f)
     ELSE memo(n.nm, trie_fold_right_first(n.t, res, f))

RECURSIVE trie_fold(_, _, _)
trie_fold(t, res, f) ==
  LET n == elim_arg(t)
  IN IF n.tag = "Nil" THEN res
     ELSE IF n.tag = "Leaf" THEN leaf_fn(f, n.x, res)
     ELSE IF n.tag = "Bin" THEN trie_fold(n.r, trie_fold(n.l, res, f), f)
     ELSE IF n.tag = "Root" THEN trie_fold(n.t, res, f)
     ELSE memo(n.nm, trie_fold(n.t, res, f))

list_of_trie(t) == trie_fold(t, << >>, "cons")

(***************************************************************************)
(* trie_fold_seq with hooks that log their calls: the result is the        *)
(* sequence of leaf, bin and name calls in the order they were made.       *)
(***************************************************************************)
LeafEv(x) == [ev |-> "leaf", x |-> x, nm |-> << >>]
BinEv == [ev |-> "bin", x |-> << >>, nm |-> << >>]
NameEv(nm) == [ev |-> "name", x |-> << >>, nm |-> nm]

RECURSIVE trie_fold_seq_bin_first(_, _)
trie_fold_seq_bin_first(t, res) ==
  LET n == elim_arg(t)
  IN IF n.tag = "Nil" THEN res
     ELSE IF n.tag = "Leaf" THEN Append(res, LeafEv(n.x))
     ELSE IF n.tag = "Bin" THEN
       LET res1 == Append(res, BinEv)
           res2 == trie_fold_seq_bin_first(n.l, res1)
       IN trie_fold_seq_bin_first(n.r, res2)
     ELSE IF n.tag = "Root" THEN trie_fold_seq_bin_first(n.t, res)
     ELSE LET res1 == memo(n.nm, trie_fold_seq_bin_first(n.t, res))
          IN Append(res1, NameEv(n.nm))

RECURSIVE trie_fold_seq(_, _)
trie_fold_seq(t, res) ==
  LET n == elim_arg(t)
  IN IF n.tag = "Nil" THEN res
     ELSE IF n.tag = "Leaf" THEN Append(res, LeafEv(n.x))
     ELSE IF n.tag = "Bin" THEN
       LET res1 == trie_fold_seq(n.l, res)
           res2 == Append(res1, BinEv)
       IN trie_fold_seq(n.r, res2)
     ELSE IF n.tag = "Root" THEN trie_fold_seq(n.t, res)
     ELSE LET res1 == memo(n.nm, trie_fold_seq(n.t, res))
          IN Append(res1, NameEv(n.nm))

(***************************************************************************)
(* trie_fold_up with the constructors as its five functions, which is      *)
(* eager_trie_of_trie.                                                     *)
(***************************************************************************)
(***************************************************************************)
(* trie_fold_seq_nm: trie_fold_seq with an Option<Name> handed down to the *)
(* leaf hook, which the log records with the element.                      *)
(***************************************************************************)
LeafNmEv(nm, x) == [ev |-> "leaf", x |-> x, nm |-> nm]

RECURSIVE trie_fold_seq_nm_keeps_outer(_, _, _)
trie_fold_seq_nm_keeps_outer(t, res, nm) ==
  LET n == elim_arg(t)
  IN IF n.tag = "Nil" THEN res
     ELSE IF n.tag = "Leaf" THEN Append(res, LeafNmEv(nm, n.x))
     ELSE IF n.tag = "Bin" THEN
       LET res1 == trie_fold_seq_nm_keeps_outer(n.l, res, nm)
           res2 == Append(res1, BinEv)
       IN trie_fold_seq_nm_keeps_outer(n.r, res2, nm)
     ELSE IF n.tag = "Root" THEN trie_fold_seq_nm_keeps_outer(n.t, res, nm)
     ELSE LET inner == IF nm = NoneV THEN Some(n.nm) ELSE nm
              res1 == memo(n.nm, trie_fold_seq_nm_keeps_outer(n.t, res, inner))
          IN Append(res1, NameEv(n.nm))

RECURSIVE trie_fold_seq_nm(_, _, _)
trie_fold_seq_nm(t, res, nm) ==
  LET n == elim_arg(t)
  IN IF n.tag = "Nil" THEN res
     ELSE IF n.tag = "Leaf" THEN Append(res, LeafNmEv(nm, n.x))
     ELSE IF n.tag = "Bin" THEN
       LET res1 == trie_fold_seq_nm(n.l, res, nm)
           res2 == Append(res1, BinEv)
       IN trie_fold_seq_nm(n.r, res2, nm)
     ELSE IF n.tag = "Root" THEN trie_fold_seq_nm(n.t, res, nm)
     ELSE LET res1 == memo(n.nm, trie_fold_seq_nm(n.t, res, Some(n.nm)))
          IN Append(res1, NameEv(n.nm))

RECURSIVE trie_fold_up_rewraps(_)
trie_fold_up_rewraps(t) ==
  LET n == elim_arg(t)
  IN IF n.tag = "Nil" THEN nil(n.bs)
     ELSE IF n.tag = "Leaf" THEN leaf(n.bs, n.x)
     ELSE IF n.tag = "Bin" THEN
       LET resl == trie_fold_up_rewraps(n.l)
           resr == trie_fold_up_rewraps(n.r)
       IN bin(n.bs, resl, resr)
     ELSE IF n.tag = "Root" THEN root(n.meta, trie_fold_up_rewraps(n.t))
     ELSE LET res == memo(n.nm, trie_fold_up_rewraps(n.t))
          IN name(n.nm, art(put(res)))

RECURSIVE trie_fold_up_swaps(_)
trie_fold_up_swaps(t) ==
  LET n == elim_arg(t)
  IN IF n.tag = "Nil" THEN nil(n.bs)
     ELSE IF n.tag = "Leaf" THEN leaf(n.bs, n.x)
     ELSE IF n.tag = "Bin" THEN
       LET resl == trie_fold_up_swaps(n.l)
           resr == trie_fold_up_swaps(n.r)
       IN bin(n.bs, resr, resl)
     ELSE IF n.tag = "Root" THEN root(n.meta, trie_fold_up_swaps(n.t))
     ELSE LET res == memo(n.nm, trie_fold_up_swaps(n.t))
          IN name(n.nm, res)

RECURSIVE trie_fold_up(_)
trie_fold_up(t) ==
  LET n == elim_arg(t)
  IN IF n.tag = "Nil" THEN nil(n.bs)
     ELSE IF n.tag = "Leaf" THEN leaf(n.bs, n.x)
     ELSE IF n.tag = "Bin" THEN
       LET resl == trie_fold_up(n.l)
           resr == trie_fold_up(n.r)
       IN bin(n.bs, resl, resr)
     ELSE IF n.tag = "Root" THEN root(n.meta, trie_fold_up(n.t))
     ELSE LET res == memo(n.nm, trie_fold_up(n.t))
          IN name(n.nm, res)

eager_trie_of_trie(t) == trie_fold_up(t)

(***************************************************************************)
(* Observations of a trie value, used to state the properties: the leaves  *)
(* reachable through Bin/Root/Name/Art nodes with their stored path and    *)
(* their actual depth below the Root, the Meta of the Root, the subtree    *)
(* under the Root, and whether a placement runs into a Leaf at path length *)
(* MAX_LEN that holds another element (the recursion of mfn, recording     *)
(* that case instead of building the result).                              *)
(***************************************************************************)
RECURSIVE LeafNodes(_, _)
LeafNodes(t, depth) ==
  IF t.tag = "Nil" THEN {}
  ELSE IF t.tag = "Leaf" THEN {[bs |-> t.bs, x |-> t.x, depth |-> depth]}
  ELSE IF t.tag = "Bin" THEN LeafNodes(t.l, depth + 1) \cup LeafNodes(t.r, depth + 1)
  ELSE IF t.tag = "Root" THEN LeafNodes(t.t, 0)
  ELSE IF t.tag = "Name" THEN LeafNodes(t.t, depth)
  ELSE IF t.tag = "Art" THEN LeafNodes(force(t.a), depth)
  ELSE {}

Leaves(t) == {n.x : n \in LeafNodes(t, 0)}

RECURSIVE Strip(_)
Strip(t) ==
  IF t.tag = "Name" THEN Strip(t.t)
  ELSE IF t.tag = "Art" THEN Strip(force(t.a))
  ELSE t

MetaOf(t) == Strip(t).meta
Body(t) == Strip(Strip(t).t)
TopName(t) == t.nm

RECURSIVE mfn_exhausted(_, _, _, _, _)
mfn_exhausted(meta, t, bs, elt, hash) ==
  IF t.tag = "Nil" /\ mfn_force_branch(meta, bs) THEN FALSE
  ELSE IF t.tag = "Nil" THEN FALSE
  ELSE IF t.tag = "Leaf" THEN
    IF t.x = elt THEN FALSE
    ELSE IF length(bs) >= MAX_LEN THEN TRUE
    ELSE mfn_exhausted(meta, split_atomic(leaf(bs, t.x)), bs, elt, hash)
  ELSE IF t.tag = "Bin" THEN
    IF hash % 2 = 0
    THEN mfn_exhausted(meta, t.l, prepend(0, t.bs), elt, hash \div 2)
    ELSE mfn_exhausted(meta, t.r, prepend(1, t.bs), elt, hash \div 2)
  ELSE IF t.tag = "Name" /\ t.t.tag = "Art"
    THEN mfn_exhausted(meta, force(t.t.a), bs, elt, hash)
  ELSE FALSE

Exhausts(t, elt) == mfn_exhausted(MetaOf(t), Body(t), mtbs, elt, Hash(elt))

\* The trie built from empty(Meta(d)) by extending with seq[1], seq[2], ...
\* under the one name nm.
RECURSIVE Build(_, _, _)
Build(seq, nm, d) ==
  IF seq = << >> THEN empty(Meta(d))
  ELSE LET t == Build(SubSeq(seq, 1, Len(seq) - 1), nm, d)
       IN IF t = Panic THEN Panic ELSE extend(nm, t, seq[Len(seq)])

\* The elements of S as a sequence in ascending order of their keys.
RECURSIVE Asc(_)
Asc(S) ==
  IF S = {} THEN << >>
  ELSE LET m == CHOOSE e \in S : \A f \in S : <<e[1], e[2]>> = <<f[1], f[2]>> \/ e[1] > f[1]
                                             \/ (e[1] = f[1] /\ e[2] > f[2])
       IN Append(Asc(S \ {m}), m)

Perms(S) ==
  {p \in [1..Cardinality(S) -> S] : \A i, j \in 1..Cardinality(S) : p[i] = p[j] => i = j}

(***************************************************************************)
(* The state machine of a trie used as a set: empty(meta), then extends.   *)
(* Elements are only ever compared for equality, so the hash assignment is *)
(* drawn up to a renaming of the keys: non-decreasing in the key.          *)
(***************************************************************************)
MinDepths == (-1)..(MAX_LEN + 1)

HashAssignments ==
  {h \in [Keys -> HashVals] : \A i \in Keys, j \in Keys : i <= j => h[i] <= h[j]}

Init ==
  /\ hk \in HashAssignments
  /\ hkv = << >>
  /\ din \in MinDepths
  /\ trie = empty(Meta(din))
  /\ added = {}
  /\ status = "ok"

Extend(nm, e) ==
  /\ status = "ok"
  /\ LET r == extend(nm, trie, e)
     IN IF r = Panic
        THEN /\ status' = "panic"
             /\ trie' = trie
        ELSE /\ status' = "ok"
             /\ trie' = r
  /\ added' = added \cup {e}
  /\ UNCHANGED <<hk, hkv, din>>

Next == \E nm \in Names, e \in SetElems : Extend(nm, e)

Spec == Init /\ [][Next]_vars

(***************************************************************************)
(* The state machine of a trie used as a map: MapIntro::empty, then        *)
(* updates.  The hash of a key and the hash of a (key, value) pair are     *)
(* independent values.                                                     *)
(***************************************************************************)
MapKeys == {1, 2}
Vals == {1, 2}
MapElems == MapKeys \X Vals
MapHashVals == {0, 1, 2}

InitMap ==
  /\ hk \in [MapKeys -> MapHashVals]
  /\ hkv \in [MapElems -> MapHashVals]
  /\ din = 1
  /\ trie = map_empty
  /\ added = {}
  /\ status = "ok"

Update(d, c) ==
  /\ status = "ok"
  /\ LET r == update(trie, d, c)
     IN IF r = Panic
        THEN /\ status' = "panic"
             /\ trie' = trie
        ELSE /\ status' = "ok"
             /\ trie' = r
  /\ added' = added \cup {<<d, c>>}
  /\ UNCHANGED <<hk, hkv, din>>

NextMap == \E d \in MapKeys, c \in Vals : Update(d, c)

SpecMap == InitMap /\ [][NextMap]_vars

(***************************************************************************)
(* C1. Membership correctness: after any sequence of set adds, mem(S, x)   *)
(* (find with the hash of x) is true iff x is one of the added elements,   *)
(* for every insertion order and every hash assignment, colliding hashes   *)
(* included.                                                               *)
(***************************************************************************)
C1_MembershipCorrect ==
  status = "ok" => \A x \in Keys : mem(trie, x) <=> (<<x, Unit>> \in added)

(***************************************************************************)
(* C2. Order independence: inserting the same distinct elements into the   *)
(* empty set (same min_depth, same name) in any two permutations yields    *)
(* equal trie values.                                                      *)
(***************************************************************************)
C2_OrderIndependent ==
  \A nm \in Names : \A p, q \in Perms(added) : Build(p, nm, din) = Build(q, nm, din)

(***************************************************************************)
(* C3. Idempotent re-insertion: add(add(S, x), x) equals add(S, x), and    *)
(* inserting an element that a Leaf already holds leaves the subtree under *)
(* the Root unchanged.                                                     *)
(***************************************************************************)
C3_IdempotentReinsert ==
  \A nm \in Names, x \in SetElems :
    LET s1 == extend(nm, trie, x)
    IN /\ s1 # Panic
       /\ extend(nm, s1, x) = s1
       /\ x \in Leaves(trie) => Body(s1) = Body(trie)

C3_Witness ==
  /\ Cardinality(Leaves(trie)) >= 2
  /\ \E nm \in Names, x \in added : x \in Leaves(trie) /\ extend(nm, trie, x) = trie

(***************************************************************************)
(* C4. Trie equality is insensitive to caching wrappers: two tries are     *)
(* equal iff they contain the same elements, whichever names wrap them.    *)
(* Stated: the current trie equals a trie built under any name from any    *)
(* set of elements exactly when the two hold the same elements.            *)
(***************************************************************************)
C4_EqualityIgnoresNames ==
  \A nm \in Names, S \in SUBSET SetElems :
    LET t2 == Build(Asc(S), nm, din)
    IN (t2 = trie) <=> (Leaves(t2) = Leaves(trie))

\* C4 as amended: equality is structural.  Two tries built from empty(meta)
\* with the same meta are equal iff they hold the same elements at the same
\* paths and the last extend of each was given the same name.
C4_EqualityUpToNames ==
  \A nm \in Names, S \in SUBSET SetElems :
    LET t2 == Build(Asc(S), nm, din)
    IN (t2 = trie) <=>
         /\ LeafNodes(t2, 0) = LeafNodes(trie, 0)
         /\ S # {} => TopName(trie) = name_fork(nm)[1]

C4_Witness ==
  /\ Cardinality(Leaves(trie)) >= 2
  /\ \E nm \in Names : Build(Asc(Leaves(trie)), nm, din) = trie
  /\ \E nm \in Names :
       LET t2 == Build(Asc(Leaves(trie)), nm, din)
       IN LeafNodes(t2, 0) = LeafNodes(trie, 0) /\ t2 # trie

(***************************************************************************)
(* C5. Map round trip: find(update(m, k, v), k) = Some(v) for every map m  *)
(* built by empty/update, bound or unbound k, and every v.                 *)
(***************************************************************************)
C5_MapRoundTrip ==
  \A k \in MapKeys, v \in Vals :
    LET m2 == update(trie, k, v)
    IN m2 # Panic /\ map_find(m2, k) = Some(v)

(***************************************************************************)
(* C6. Map update leaves other keys alone: for k2 # k not bound in m,      *)
(* find(update(m, k, v), k2) = find(m, k2).                                *)
(***************************************************************************)
C6_MapFrame ==
  \A k \in MapKeys, v \in Vals, k2 \in MapKeys :
    (k2 # k /\ k2 \notin {e[1] : e \in added}) =>
      LET m2 == update(trie, k, v)
      IN m2 # Panic /\ map_find(m2, k2) = map_find(trie, k2)

\* The lookup of the unbound key k2 walks to the very leaf that update
\* placed for (k, v), and the update itself is findable.
C6_Witness ==
  /\ added # {}
  /\ \E k \in MapKeys, v \in Vals, k2 \in MapKeys :
       /\ k2 # k
       /\ k2 \notin {e[1] : e \in added}
       /\ <<k, v>> \notin added
       /\ hk[k2] = hkv[<<k, v>>]
       /\ hk[k] = hkv[<<k, v>>]
       /\ map_find(update(trie, k, v), k) = Some(v)
       /\ map_find(update(trie, k, v), k2) = NoneV

(***************************************************************************)
(* C7. Hash-space exhaustion is fatal: an extend whose descent reaches a   *)
(* Leaf at path length MAX_LEN holding a different element panics.         *)
(***************************************************************************)
C7_ExhaustionPanics ==
  \A nm \in Names, e \in SetElems : Exhausts(trie, e) => extend(nm, trie, e) = Panic

(***************************************************************************)
(* C8. Min-depth invariant: every Leaf of a trie built from                *)
(* empty(Meta{min_depth: d}) lies at path length >= d clamped to MAX_LEN,  *)
(* leaves produced by splitting included.                                  *)
(***************************************************************************)
C8_MinDepth ==
  \A n \in LeafNodes(trie, 0) :
    /\ length(n.bs) >= Min(din, MAX_LEN)
    /\ n.depth >= Min(din, MAX_LEN)

C8_Witness ==
  /\ din >= 1
  /\ \E n \in LeafNodes(trie, 0) : n.depth = Min(din, MAX_LEN)
  /\ \E n \in LeafNodes(trie, 0) : n.depth > Min(din, MAX_LEN)

(***************************************************************************)
(* C9. Depth bound: no Leaf has a path length greater than MAX_LEN.        *)
(***************************************************************************)
C9_DepthBound ==
  \A n \in LeafNodes(trie, 0) : length(n.bs) <= MAX_LEN /\ n.depth <= MAX_LEN

C9_Witness ==
  /\ din < MAX_LEN
  /\ Cardinality(added) >= 2
  /\ \E n \in LeafNodes(trie, 0) : length(n.bs) = MAX_LEN

(***************************************************************************)
(* C10. Empty laws: empty(meta) is empty and finds nothing under any hash  *)
(* index; a trie extended once from empty(meta) is not empty.              *)
(***************************************************************************)
C10_EmptyLaws ==
  /\ added = {} =>
       /\ is_empty(trie)
       /\ \A x \in SetElems, i \in HashVals : find(trie, x, i) = NoneV
       /\ \A x \in Keys : ~mem(trie, x)
  /\ \A nm \in Names, x \in SetElems : ~is_empty(extend(nm, empty(Meta(din)), x))
  /\ Cardinality(added) = 1 => ~is_empty(trie)

C10_Witness ==
  /\ Cardinality(added) = 1
  /\ \E nm \in Names, x \in added : trie = extend(nm, empty(Meta(din)), x)
  /\ ~is_empty(trie)

(***************************************************************************)
(* The shape of a trie value: the number of Root nodes in it, and the      *)
(* shape Name(n1, Art(Root(meta, Name(n2, Art(subtree))))) with n1 # n2    *)
(* and a single Root.                                                      *)
(***************************************************************************)
RECURSIVE RootCount(_)
RootCount(t) ==
  IF t.tag = "Bin" THEN RootCount(t.l) + RootCount(t.r)
  ELSE IF t.tag = "Root" THEN 1 + RootCount(t.t)
  ELSE IF t.tag = "Name" THEN RootCount(t.t)
  ELSE IF t.tag = "Art" THEN RootCount(force(t.a))
  ELSE 0

Canonical(t) ==
  /\ t.tag = "Name"
  /\ t.t.tag = "Art"
  /\ force(t.t.a).tag = "Root"
  /\ force(t.t.a).t.tag = "Name"
  /\ force(t.t.a).t.t.tag = "Art"
  /\ t.nm # force(t.t.a).t.nm
  /\ RootCount(t) = 1

(***************************************************************************)
(* C11. Canonical shape is closed under extend: every value returned by    *)
(* empty or extend is Name(n1, Art(Root(meta, Name(n2, Art(subtree)))))    *)
(* with exactly one Root and n1 # n2; extend keeps the meta of its input   *)
(* and, applied to such a value, does not abort.                           *)
(***************************************************************************)
C11_CanonicalClosed ==
  /\ Canonical(empty(Meta(din)))
  /\ Canonical(trie)
  /\ \A nm \in Names, e \in SetElems :
       LET r == extend(nm, trie, e)
       IN /\ r # Panic
          /\ Canonical(r)
          /\ MetaOf(r) = MetaOf(trie)

C11_Witness ==
  /\ Cardinality(added) >= 2
  /\ Body(trie).tag = "Bin"
  /\ \E nm \in Names, e \in SetElems \ added :
       Canonical(extend(nm, trie, e)) /\ extend(nm, trie, e) # trie

(***************************************************************************)
(* Values a caller can hand to extend: a trie built by empty/extend, the   *)
(* same under further Name(_, Art(_)) layers, and values made of its parts *)
(* with the Name, the Art or the Root missing or out of place.             *)
(* ResolvesToRoot is the entry shape: Name(_, Art(a)) where forcing a,     *)
(* through further Name(_, Art(_)) layers, yields a Root.                  *)
(***************************************************************************)
RECURSIVE ResolvesToRoot(_)
ResolvesToRoot(t) ==
  /\ t.tag = "Name"
  /\ t.t.tag = "Art"
  /\ LET f == force(t.t.a) IN f.tag = "Root" \/ ResolvesToRoot(f)

RootOf(t) == force(t.t.a)

EntryShapes(t) ==
  {t, art(put(t)), RootOf(t), Body(t), nil(mtbs)}
  \cup UNION {
       {name(nm, art(put(t))),
        name(nm, art(thunk(nm, name(name_trie_empty, art(put(t)))))),
        name(nm, t),
        name(nm, RootOf(t)),
        name(nm, art(put(Body(t)))),
        name(nm, art(put(art(put(RootOf(t)))))),
        name(nm, art(put(name(nm, RootOf(t))))),
        name(nm, art(put(name(name_trie_empty, art(put(Body(t)))))))}
       : nm \in Names}

(***************************************************************************)
(* C12. Malformed entry shape is fatal: extend aborts whenever its trie    *)
(* argument is not Name(_, Art(a)), or forcing a, after unwrapping further *)
(* Name(_, Art(_)) layers, yields anything other than a Root.              *)
(***************************************************************************)
C12_MalformedEntryFatal ==
  \A m \in EntryShapes(trie), nm \in Names, e \in SetElems :
    ~ResolvesToRoot(m) => extend(nm, m, e) = Panic

\* Both kinds of argument occur: layered well-formed ones, which extend
\* accepts, and malformed ones of every listed kind.
C12_Witness ==
  /\ added # {}
  /\ \E nm \in Names, e \in SetElems :
       /\ extend(nm, name(nm, art(put(trie))), e) # Panic
       /\ Leaves(extend(nm, name(nm, art(put(trie))), e)) = Leaves(trie) \cup {e}
       /\ e \notin Leaves(trie)
       /\ extend(nm, RootOf(trie), e) = Panic
       /\ extend(nm, name(nm, art(put(Body(trie)))), e) = Panic
  /\ Cardinality({m \in EntryShapes(trie) : ~ResolvesToRoot(m)}) >= 8

(***************************************************************************)
(* The values obtained from a trie by wrapping one of its subtrees as a    *)
(* bare Art(put(subtree)), an articulation not directly under a Name, each *)
(* with the branch choices (0 = left, 1 = right) that lead from the        *)
(* subtree under the Root to the wrapped node.  The nodes from the top     *)
(* down to that subtree have the empty path: every extend passes them.     *)
(***************************************************************************)
RECURSIVE WrapsAt(_, _, _)
WrapsAt(t, path, underName) ==
  LET self == IF underName THEN {} ELSE {[t |-> art(put(t)), path |-> path]}
  IN IF t.tag = "Bin" THEN
       self
       \cup {[t |-> bin(t.bs, w.t, t.r), path |-> w.path] :
               w \in WrapsAt(t.l, Append(path, 0), FALSE)}
       \cup {[t |-> bin(t.bs, t.l, w.t), path |-> w.path] :
               w \in WrapsAt(t.r, Append(path, 1), FALSE)}
     ELSE IF t.tag = "Root" THEN
       self \cup {[t |-> root(t.meta, w.t), path |-> w.path] : w \in WrapsAt(t.t, path, FALSE)}
     ELSE IF t.tag = "Name" THEN
       self \cup {[t |-> name(t.nm, w.t), path |-> w.path] : w \in WrapsAt(t.t, path, TRUE)}
     ELSE IF t.tag = "Art" THEN
       self \cup {[t |-> art([t.a EXCEPT !.val = w.t]), path |-> w.path] :
                    w \in WrapsAt(force(t.a), path, FALSE)}
     ELSE self

Wraps(t) == WrapsAt(t, << >>, FALSE)

\* The descent of mfn by the bits of hash h passes the node at the path.
OnPath(path, h) == \A i \in 1..Len(path) : (h \div pow(2, i - 1)) % 2 = path[i]

\* The outcomes of the read-only operations on a trie value.
ReadOutcome(t) ==
  [is_empty |-> is_empty(t),
   find     |-> [x \in SetElems |-> find(t, x, Hash(x))],
   count    |-> trie_fold(t, 0, "count"),
   list     |-> list_of_trie(t),
   fold_seq |-> trie_fold_seq(t, << >>),
   fold_up  |-> trie_fold_up(t)]

(***************************************************************************)
(* C13. Art is transparent to every operation: wrapping any subtree of the *)
(* input as a bare Art(put(subtree)) changes the outcome of none of        *)
(* extend, find, is_empty and the folds; in particular extend still        *)
(* succeeds and inserts the element when its descent meets such an Art.    *)
(***************************************************************************)
C13_ArtTransparent ==
  \A w \in Wraps(trie) :
    /\ ReadOutcome(w.t) = ReadOutcome(trie)
    /\ \A nm \in Names, e \in SetElems :
         LET r == extend(nm, w.t, e)
         IN /\ r # Panic
            /\ eager_trie_of_trie(r) = eager_trie_of_trie(extend(nm, trie, e))

\* C13 as amended: Art is transparent to find, is_empty and the folds.
\* extend forces only an Art directly under a Name: it aborts when its
\* entry or its descent meets a bare Art, and when the bare Art lies off the
\* descent it succeeds with the result it has without the wrapping, up to
\* articulations.  The extends are made under name_unit(), the name that
\* Map.update and trie_of_list pass; mfn never inspects the name.
C13_ArtTransparentToReads ==
  LET ws == Wraps(trie)
      base == ReadOutcome(trie)
  IN /\ \A w \in ws : ReadOutcome(w.t) = base
     /\ \A e \in SetElems :
          LET plain == eager_trie_of_trie(extend(name_unit, trie, e))
          IN \A w \in ws :
               LET r == extend(name_unit, w.t, e)
               IN IF OnPath(w.path, Hash(e))
                  THEN r = Panic
                  ELSE r # Panic /\ eager_trie_of_trie(r) = plain

C13_Witness ==
  /\ Cardinality(Leaves(trie)) >= 2
  /\ \E w \in Wraps(trie), nm \in Names, e \in SetElems \ added :
       /\ w.path # << >>
       /\ ~OnPath(w.path, Hash(e))
       /\ extend(nm, w.t, e) # Panic
       /\ e \in Leaves(extend(nm, w.t, e))
  /\ \E w \in Wraps(trie), nm \in Names, e \in SetElems \ added :
       /\ w.path # << >>
       /\ OnPath(w.path, Hash(e))
       /\ extend(nm, w.t, e) = Panic
       /\ ReadOutcome(w.t) = ReadOutcome(trie)

\* The Name under the Root of a trie built by empty/extend.
InnerName(t) == RootOf(t).t.nm

(***************************************************************************)
(* C14. Collision-free naming: across any sequence of extend calls, those  *)
(* of Map.update and trie_of_list (which pass name_unit()) included, no    *)
(* Name is attached to two different subtree values: an extend that        *)
(* changes the contents wraps them under names other than those of its     *)
(* input, and the two names inside one result are distinct.                *)
(***************************************************************************)
C14_NamesCollisionFree ==
  /\ TopName(trie) # InnerName(trie)
  /\ \A nm \in Names, e \in SetElems :
       LET r == extend(nm, trie, e)
       IN Body(r) # Body(trie) =>
            /\ TopName(r) # TopName(trie)
            /\ InnerName(r) # InnerName(trie)

\* C14 as amended: the names are a function of the name the caller gives.
\* extend(nm, _, _) wraps its result under the first fork of nm and the
\* subtree under the first fork of the second fork of nm; the two are
\* distinct, and extends given different names use different names, but
\* extends given the same name, as all those of Map.update and
\* trie_of_list, reuse the same two names whatever the contents.
C14_NamesFollowGivenName ==
  /\ TopName(trie) # InnerName(trie)
  /\ IF added = {}
     THEN /\ TopName(trie) = name_fork(name_trie_empty)[1]
          /\ InnerName(trie) = name_fork(name_trie_empty)[2]
     ELSE \E nm \in Names :
            /\ TopName(trie) = name_fork(nm)[1]
            /\ InnerName(trie) = name_fork(name_fork(nm)[2])[1]
  /\ \A e \in SetElems, nm1 \in Names :
       LET r1 == extend(nm1, trie, e)
           top1 == TopName(r1)
           in1 == InnerName(r1)
       IN /\ top1 # in1
          /\ top1 = name_fork(nm1)[1]
          /\ in1 = name_fork(name_fork(nm1)[2])[1]
          /\ \A nm2 \in Names \ {nm1} :
               LET r2 == extend(nm2, trie, e)
               IN {top1, in1} \cap {TopName(r2), InnerName(r2)} = {}

\* Two successive extends under name_unit(), as Map.update and trie_of_list
\* issue them, with different contents under the same two names.
C14_Witness ==
  /\ added # {}
  /\ TopName(trie) = name_fork(name_unit)[1]
  /\ \E e \in SetElems \ added :
       LET r == extend(name_unit, trie, e)
       IN /\ Body(r) # Body(trie)
          /\ TopName(r) = TopName(trie)
          /\ InnerName(r) = InnerName(trie)
          /\ TopName(extend(name_of_usize(0), trie, e)) # TopName(trie)

(***************************************************************************)
(* C15. empty(meta) clamps min_depth into [0, MAX_LEN]: for every          *)
(* min_depth given (negative, in range, or above MAX_LEN) the Meta stored  *)
(* in the Root has 0 <= min_depth <= MAX_LEN, and a value above MAX_LEN is *)
(* clamped, not rejected.                                                  *)
(***************************************************************************)
C15_MinDepthClamped ==
  /\ empty(Meta(din)) # Panic
  /\ 0 <= MetaOf(empty(Meta(din))).min_depth
  /\ MetaOf(empty(Meta(din))).min_depth <= MAX_LEN
  /\ din > MAX_LEN => MetaOf(empty(Meta(din))).min_depth = MAX_LEN
  /\ 0 <= MetaOf(trie).min_depth
  /\ MetaOf(trie).min_depth <= MAX_LEN

(***************************************************************************)
(* C16. trie_fold visits every Leaf exactly once: the leaf function is     *)
(* called once per Leaf reachable through Bin/Root/Name/forced Art nodes   *)
(* and never for Nil, so folding with a counter yields the number of       *)
(* distinct inserted elements.                                             *)
(***************************************************************************)
C16_FoldVisitsEachLeafOnce ==
  LET l == list_of_trie(trie)
  IN /\ Len(l) = Cardinality(LeafNodes(trie, 0))
     /\ {l[i] : i \in 1..Len(l)} = Leaves(trie)
     /\ \A i, j \in 1..Len(l) : l[i] = l[j] => i = j
     /\ trie_fold(trie, 0, "count") = Len(l)
     /\ trie_fold(trie, 0, "count") = Cardinality(added)

(***************************************************************************)
(* The nodes of a trie value other than Art nodes, each with the subtree   *)
(* it heads.                                                               *)
(***************************************************************************)
RECURSIVE Nodes(_)
Nodes(t) ==
  IF t.tag = "Bin" THEN {t} \cup Nodes(t.l) \cup Nodes(t.r)
  ELSE IF t.tag = "Root" THEN {t} \cup Nodes(t.t)
  ELSE IF t.tag = "Name" THEN {t} \cup Nodes(t.t)
  ELSE IF t.tag = "Art" THEN Nodes(force(t.a))
  ELSE {t}

BinNodes(t) == {n \in Nodes(t) : n.tag = "Bin"}
NameNodes(t) == {n \in Nodes(t) : n.tag = "Name"}

\* The positions of the calls of one kind in a log of hook calls.
Calls(tr, ev) == {i \in 1..Len(tr) : tr[i].ev = ev}

(***************************************************************************)
(* C17. trie_fold_seq is strictly in-order: at every Bin all leaves of the *)
(* left child are visited before bin_fn is applied, once per Bin, and      *)
(* before any leaf of the right child; at every Name the inner trie is     *)
(* folded first and name_fn is applied once afterwards to that result.     *)
(***************************************************************************)
C17_FoldSeqInOrder ==
  LET tr == trie_fold_seq(trie, << >>)
      at(e) == CHOOSE i \in 1..Len(tr) : tr[i] = e
  IN /\ Cardinality(Calls(tr, "leaf")) = Cardinality(LeafNodes(trie, 0))
     /\ {tr[i].x : i \in Calls(tr, "leaf")} = Leaves(trie)
     /\ Cardinality(Calls(tr, "bin")) = Cardinality(BinNodes(trie))
     /\ Cardinality(Calls(tr, "name")) = Cardinality(NameNodes(trie))
     /\ \A b \in BinNodes(trie) :
          \E k \in Calls(tr, "bin") :
            /\ \A x \in Leaves(b.l) : at(LeafEv(x)) < k
            /\ \A y \in Leaves(b.r) : k < at(LeafEv(y))
            /\ Cardinality({i \in Calls(tr, "bin") : i < k}) >= Cardinality(BinNodes(b.l))
            /\ Cardinality({i \in Calls(tr, "bin") : i > k}) >= Cardinality(BinNodes(b.r))
     /\ \A n \in NameNodes(trie) :
          /\ Cardinality({i \in Calls(tr, "name") : tr[i].nm = n.nm}) = 1
          /\ \A x \in Leaves(n.t) : at(LeafEv(x)) < at(NameEv(n.nm))
          /\ at(NameEv(n.nm)) > Cardinality(Nodes(n.t) \ {m \in Nodes(n.t) : m.tag \in {"Nil", "Root"}})

C17_Witness ==
  LET tr == trie_fold_seq(trie, << >>)
  IN /\ Cardinality(BinNodes(trie)) >= 2
     /\ \E b \in BinNodes(trie) : Leaves(b.l) # {} /\ Leaves(b.r) # {}
     /\ \E i, j, k \in 1..Len(tr) :
          i < j /\ j < k /\ tr[i].ev = "leaf" /\ tr[j].ev = "bin" /\ tr[k].ev = "leaf"
     /\ tr[Len(tr)] = NameEv(TopName(trie))
     /\ tr[Len(tr) - 1] = NameEv(InnerName(trie))

(***************************************************************************)
(* Raw observations of a value, in which an Art node counts as a node: the *)
(* tags occurring in it, and its nodes other than Art with their fields    *)
(* and their address (the child steps from the top: 0 and 1 under a Bin,   *)
(* 2 under a Root or Name; an Art is no step).                             *)
(***************************************************************************)
RECURSIVE Tags(_)
Tags(t) ==
  IF t.tag = "Bin" THEN {"Bin"} \cup Tags(t.l) \cup Tags(t.r)
  ELSE IF t.tag = "Root" THEN {"Root"} \cup Tags(t.t)
  ELSE IF t.tag = "Name" THEN {"Name"} \cup Tags(t.t)
  ELSE IF t.tag = "Art" THEN {"Art"} \cup Tags(force(t.a))
  ELSE {t.tag}

RECURSIVE AddrNodes(_, _)
AddrNodes(t, addr) ==
  IF t.tag = "Nil" THEN {[addr |-> addr, tag |-> "Nil", f |-> <<t.bs>>]}
  ELSE IF t.tag = "Leaf" THEN {[addr |-> addr, tag |-> "Leaf", f |-> <<t.bs, t.x>>]}
  ELSE IF t.tag = "Bin" THEN
    {[addr |-> addr, tag |-> "Bin", f |-> <<t.bs>>]}
    \cup AddrNodes(t.l, Append(addr, 0)) \cup AddrNodes(t.r, Append(addr, 1))
  ELSE IF t.tag = "Root" THEN
    {[addr |-> addr, tag |-> "Root", f |-> <<t.meta>>]} \cup AddrNodes(t.t, Append(addr, 2))
  ELSE IF t.tag = "Name" THEN
    {[addr |-> addr, tag |-> "Name", f |-> <<t.nm>>]} \cup AddrNodes(t.t, Append(addr, 2))
  ELSE AddrNodes(force(t.a), addr)

(***************************************************************************)
(* C18. fold_up produces a de-cached canonical copy: eager_trie_of_trie    *)
(* (trie_fold_up with the bare constructors) of a trie built by            *)
(* empty/extend equals the same trie built from bare nil/leaf/bin/root     *)
(* constructors with no naming: the output has neither Name nor Art.       *)
(***************************************************************************)
C18_FoldUpBare ==
  LET u == eager_trie_of_trie(trie)
  IN /\ u = root(MetaOf(trie), Body(trie))
     /\ Tags(u) \cap {"Name", "Art"} = {}

\* C18 as amended: eager_trie_of_trie removes the articulations only.  Of a
\* trie built by empty/extend it yields Name(n1, Root(meta, Name(n2, s)))
\* with the names n1, n2 and the meta of its input and s the bare
\* Nil/Leaf/Bin subtree: no Art, but both Name nodes, so it differs from
\* the trie built from bare constructors with no naming.
C18_FoldUpKeepsNames ==
  LET u == eager_trie_of_trie(trie)
      bare == root(MetaOf(trie), Body(trie))
  IN /\ "Art" \notin Tags(u)
     /\ Tags(Body(trie)) \subseteq {"Nil", "Leaf", "Bin"}
     /\ u = name(TopName(trie), root(MetaOf(trie), name(InnerName(trie), Body(trie))))
     /\ u # bare
     /\ Cardinality(NameNodes(u)) = 2

C18_Witness ==
  /\ Cardinality(Leaves(trie)) >= 2
  /\ "Art" \in Tags(trie)
  /\ "Art" \notin Tags(eager_trie_of_trie(trie))
  /\ eager_trie_of_trie(trie).tag = "Name"
  /\ eager_trie_of_trie(trie).t.t.tag = "Name"
  /\ eager_trie_of_trie(trie).t.t.t.tag = "Bin"

(***************************************************************************)
(* C19. eager_trie_of_trie returns a trie with no Art node anywhere and    *)
(* otherwise the structure of its forced input: the same                   *)
(* Nil/Leaf/Bin/Root/Name nodes with the same paths, elements, meta and    *)
(* names, in the same left/right positions.                                *)
(***************************************************************************)
C19_EagerSameStructure ==
  LET u == eager_trie_of_trie(trie)
  IN /\ "Art" \notin Tags(u)
     /\ AddrNodes(u, << >>) = AddrNodes(trie, << >>)

C19_Witness ==
  /\ Cardinality(BinNodes(trie)) >= 2
  /\ \E b \in BinNodes(trie) : b.l.tag = "Leaf" /\ b.r.tag = "Nil"
  /\ \E b \in BinNodes(trie) : b.l.tag # "Leaf" /\ b.r.tag = "Leaf"
  /\ eager_trie_of_trie(trie) # trie
  /\ AddrNodes(eager_trie_of_trie(trie), << >>) = AddrNodes(trie, << >>)

(***************************************************************************)
(* A node under a chain of k nested articulations.                         *)
(***************************************************************************)
MaxChain == 2

RECURSIVE ArtChain(_, _)
ArtChain(n, k) == IF k = 0 THEN n ELSE art(put(ArtChain(n, k - 1)))

Handlers == {"Nil", "Leaf", "Bin", "Root", "Name"}

(***************************************************************************)
(* C20. Transparent forcing in elim / elim_arg / elim_ref: for any trie,   *)
(* chains of nested Art nodes included, the one handler invoked is that of *)
(* the first non-Art node reached by forcing; no handler is dispatched on  *)
(* an Art node, and forcing does not proceed past a Name node.             *)
(***************************************************************************)
C20_ElimForcesToFirstNode ==
  \A n \in Nodes(trie), k \in 0..MaxChain :
    LET t == ArtChain(n, k)
    IN /\ elim(t) = n
       /\ elim_arg(t) = n
       /\ elim_ref(t) = n
       /\ elim(t).tag \in Handlers
       /\ elim_arg(t).tag \in Handlers
       /\ elim_ref(t).tag \in Handlers
       /\ n.tag = "Name" => elim(t).t = n.t /\ elim_arg(t).t = n.t /\ elim_ref(t).t = n.t

\* A Name over an Art under a chain of articulations is dispatched to the
\* Name handler with the Art unforced; the Art itself is dispatched to the
\* handler of the Root it holds.
C20_Witness ==
  /\ Cardinality(added) >= 2
  /\ {n.tag : n \in Nodes(trie)} = Handlers
  /\ elim(ArtChain(trie, MaxChain)).tag = "Name"
  /\ elim(ArtChain(trie, MaxChain)).t.tag = "Art"
  /\ elim(trie.t).tag = "Root"

(***************************************************************************)
(* The bits of a hash as mfn and find consume them: bit k is read at path  *)
(* length k (hash % 2 after k shifts), and the path of length k that the   *)
(* descent by hash h follows is the bit-string of the k low bits of h.     *)
(***************************************************************************)
Bit(h, k) == (h \div pow(2, k)) % 2

PathOf(h, k) == [length |-> k, value |-> h % pow(2, k)]

(***************************************************************************)
(* C24. Leaf splitting keeps the element findable: for a Leaf(bs, e) whose *)
(* path bs is the low length(bs) bits of hash(e), split_atomic returns     *)
(* Bin(bs, _, _) with Leaf(e) one bit deeper on the side selected by bit   *)
(* number length(bs) of hash(e), the side find and extend with hash(e)     *)
(* descend into at that depth, and Nil on the other side.                  *)
(***************************************************************************)
C24_SplitKeepsFindable ==
  \A e \in SetElems, k \in 0..(MAX_LEN - 1) :
    LET h == Hash(e)
        bs == PathOf(h, k)
        s == split_atomic(leaf(bs, e))
    IN /\ s.tag = "Bin"
       /\ s.bs = bs
       /\ IF Bit(h, k) = 1
          THEN s.l = nil(prepend(0, bs)) /\ s.r = leaf(prepend(1, bs), e)
          ELSE s.l = leaf(prepend(0, bs), e) /\ s.r = nil(prepend(1, bs))
       /\ prepend(Bit(h, k), bs) = PathOf(h, k + 1)
       /\ find(s, e, h \div pow(2, k)) = Some(e)
       /\ mfn(name_unit, Meta(0), s, bs, e, h \div pow(2, k)) = s

\* An extend has split a Leaf below the minimum depth: the trie holds a
\* Leaf on the right of the Bin that split_atomic made of it.
C24_Witness ==
  \E n \in LeafNodes(trie, 0) :
    /\ n.depth > 1
    /\ n.depth > Min(din, MAX_LEN)
    /\ Bit(Hash(n.x), n.depth - 1) = 1
    /\ split_atomic(leaf(PathOf(Hash(n.x), n.depth - 1), n.x)).r = leaf(n.bs, n.x)
    /\ \E b \in BinNodes(trie) : b.r = leaf(n.bs, n.x)

(***************************************************************************)
(* The position of a node: the branch choices among the child steps of its *)
(* address, and the bit-string that spells them (bit i is the i-th choice).*)
(***************************************************************************)
Position(addr) == SelectSeq(addr, LAMBDA b : b # 2)

RECURSIVE BsOf(_)
BsOf(pos) ==
  IF pos = << >> THEN mtbs
  ELSE LET front == BsOf(SubSeq(pos, 1, Len(pos) - 1))
       IN [length |-> Len(pos),
           value  |-> front.value + pos[Len(pos)] * pow(2, Len(pos) - 1)]

(***************************************************************************)
(* C25. Path/hash consistency: in every trie reachable from empty by       *)
(* extends, the bit-string stored in each Nil/Leaf/Bin node is its actual  *)
(* position (length = number of Bin ancestors, bit i = the i-th branch     *)
(* choice from the Root), and the path of every Leaf(bs, e) is the low     *)
(* length(bs) bits of the hash of e.                                       *)
(***************************************************************************)
C25_PathHashConsistent ==
  \A n \in AddrNodes(trie, << >>) :
    n.tag \in {"Nil", "Leaf", "Bin"} =>
      /\ n.f[1] = BsOf(Position(n.addr))
      /\ length(n.f[1]) = Len(Position(n.addr))
      /\ n.tag = "Leaf" => n.f[1] = PathOf(Hash(n.f[2]), length(n.f[1]))

\* Leaves on both sides at depth two or more, one made by a split, next to
\* a Nil below the top.
C25_Witness ==
  /\ \E n \in AddrNodes(trie, << >>) :
       n.tag = "Leaf" /\ length(n.f[1]) >= 2 /\ n.f[1].value >= 2
       /\ length(n.f[1]) > Min(din, MAX_LEN)
  /\ \E n \in AddrNodes(trie, << >>) : n.tag = "Nil" /\ length(n.f[1]) >= 2
  /\ Cardinality(Leaves(trie)) >= 2

(***************************************************************************)
(* C26. No empty branches: in every trie reachable from empty by extends,  *)
(* every Bin has at least one Leaf beneath it and every Bin at depth >=    *)
(* min_depth has at least two; is_empty returns true iff no element has    *)
(* been inserted.                                                          *)
(***************************************************************************)
C26_NoEmptyBranches ==
  /\ \A b \in BinNodes(trie) :
       /\ Cardinality(Leaves(b)) >= 1
       /\ length(b.bs) >= MetaOf(trie).min_depth => Cardinality(Leaves(b)) >= 2
  /\ is_empty(trie) <=> added = {}

(***************************************************************************)
(* The order in which trie_fold calls its leaf function: list_of_trie      *)
(* conses each visited element onto the front of the accumulator, so the   *)
(* visits are its result read backwards.                                   *)
(***************************************************************************)
Reverse(s) == [i \in 1..Len(s) |-> s[Len(s) + 1 - i]]

VisitOrder(t) == Reverse(list_of_trie(t))

(***************************************************************************)
(* C28. Order of the unordered fold: at every Bin trie_fold threads the    *)
(* accumulator right-then-left, i.e. every leaf of the right child is      *)
(* visited before any leaf of the left child.                              *)
(***************************************************************************)
C28_FoldRightThenLeft ==
  LET v == VisitOrder(trie)
      at(e) == CHOOSE i \in 1..Len(v) : v[i] = e
  IN \A b \in BinNodes(trie) :
       \A x \in Leaves(b.l), y \in Leaves(b.r) : at(y) < at(x)

\* C28 as amended: trie_fold threads the accumulator left-then-right.  At
\* every Bin the left child is folded first and its result is the
\* accumulator of the fold of the right child, so every leaf of the left
\* child is visited before any leaf of the right child, and list_of_trie
\* (which conses) lists the right child's elements first.
C28_FoldLeftThenRight ==
  LET v == VisitOrder(trie)
      l == list_of_trie(trie)
      at(e) == CHOOSE i \in 1..Len(v) : v[i] = e
      in(e) == CHOOSE i \in 1..Len(l) : l[i] = e
  IN \A b \in BinNodes(trie) :
       \A x \in Leaves(b.l), y \in Leaves(b.r) : at(x) < at(y) /\ in(y) < in(x)

C28_Witness ==
  /\ \E b \in BinNodes(trie) : Leaves(b.l) # {} /\ Leaves(b.r) # {}
  /\ Cardinality(Leaves(trie)) >= 3
  /\ \E b \in BinNodes(trie) :
       /\ b.l.tag = "Leaf"
       /\ b.r.tag = "Leaf"
       /\ \E i \in 1..(Len(VisitOrder(trie)) - 1) :
            VisitOrder(trie)[i] = b.l.x /\ VisitOrder(trie)[i + 1] = b.r.x

(***************************************************************************)
(* The name context of each Leaf of a value: the name of the innermost     *)
(* Name node above it, or the given context when there is none.  The       *)
(* values folded: a trie built by empty/extend, its bare subtree, and that *)
(* subtree with Name(_, Art(_)) layers put above it and above a child of   *)
(* its top Bin.                                                            *)
(***************************************************************************)
RECURSIVE EnclosingNames(_, _)
EnclosingNames(t, nm) ==
  IF t.tag = "Nil" THEN {}
  ELSE IF t.tag = "Leaf" THEN {<<t.x, nm>>}
  ELSE IF t.tag = "Bin" THEN EnclosingNames(t.l, nm) \cup EnclosingNames(t.r, nm)
  ELSE IF t.tag = "Root" THEN EnclosingNames(t.t, nm)
  ELSE IF t.tag = "Name" THEN EnclosingNames(t.t, Some(t.nm))
  ELSE EnclosingNames(force(t.a), nm)

NameShapes(t) ==
  LET b == Body(t)
      n1 == name_of_usize(1)
      n2 == name_of_usize(2)
  IN {t, b, name(n1, art(put(b))), name(n2, art(put(name(n1, art(put(b))))))}
     \cup (IF b.tag = "Bin"
           THEN {bin(b.bs, name(n1, art(put(b.l))), b.r),
                 name(n2, art(put(bin(b.bs, b.l, name(n1, art(put(b.r)))))))}
           ELSE {})

(***************************************************************************)
(* C29. Name threading in trie_fold_seq_nm: the leaf visitor is called     *)
(* with Some(n), n the name of the innermost Name node enclosing the leaf  *)
(* (an inner Name replaces the outer one for its whole subtree, on both    *)
(* sides of any Bin below it), and with the caller-supplied Option<Name>   *)
(* when no Name encloses the leaf; the visiting order and the bin and name *)
(* hook calls are those of trie_fold_seq.                                  *)
(***************************************************************************)
C29_NameThreading ==
  \A t \in NameShapes(trie), nm0 \in {NoneV, Some(name_unit)} :
    LET tr == trie_fold_seq_nm(t, << >>, nm0)
        plain == trie_fold_seq(t, << >>)
    IN /\ Len(tr) = Len(plain)
       /\ \A i \in 1..Len(tr) :
            IF tr[i].ev = "leaf" THEN plain[i] = LeafEv(tr[i].x) ELSE plain[i] = tr[i]
       /\ {<<tr[i].x, tr[i].nm>> : i \in Calls(tr, "leaf")} = EnclosingNames(t, nm0)
       /\ \A i \in Calls(tr, "leaf") : tr[i].nm = nm0 \/ tr[i].nm \in {Some(n.nm) : n \in NameNodes(t)}

\* A Bin with leaves on both sides: folded bare, its leaves get the
\* caller's context; with a Name over its left child only, the left leaves
\* get that name and the right leaves the caller's context; inside a built
\* trie every leaf gets the name under the Root, not the top name.
C29_Witness ==
  LET b == Body(trie)
  IN /\ b.tag = "Bin"
     /\ Leaves(b.l) # {}
     /\ Leaves(b.r) # {}
     /\ LET tr == trie_fold_seq_nm(bin(b.bs, name(name_of_usize(1), art(put(b.l))), b.r),
                                   << >>, Some(name_unit))
        IN /\ \E i \in Calls(tr, "leaf") : tr[i].nm = Some(name_of_usize(1))
           /\ \E i \in Calls(tr, "leaf") : tr[i].nm = Some(name_unit)
     /\ \A i \in Calls(trie_fold_seq_nm(trie, << >>, NoneV), "leaf") :
          trie_fold_seq_nm(trie, << >>, NoneV)[i].nm = Some(InnerName(trie))
     /\ \A i \in Calls(trie_fold_seq_nm(b, << >>, NoneV), "leaf") :
          trie_fold_seq_nm(b, << >>, NoneV)[i].nm = NoneV

(***************************************************************************)
(* The calls of mfn made by one extend, in order, each with the tag of the *)
(* trie it is called on and the length of the path it is called with: the  *)
(* recursion of mfn, recording its calls instead of building the result.   *)
(***************************************************************************)
RECURSIVE mfn_descent(_, _, _, _, _)
mfn_descent(meta, t, bs, elt, hash) ==
  LET here == <<[tag |-> t.tag, len |-> length(bs)]>>
  IN IF t.tag = "Nil" /\ mfn_force_branch(meta, bs) THEN
       IF hash % 2 = 0
       THEN here \o mfn_descent(meta, nil(prepend(0, bs)), prepend(0, bs), elt, hash \div 2)
       ELSE here \o mfn_descent(meta, nil(prepend(1, bs)), prepend(1, bs), elt, hash \div 2)
     ELSE IF t.tag = "Nil" THEN here
     ELSE IF t.tag = "Leaf" THEN
       IF mfn_keep_leaf(length(bs), t.x, elt) THEN here
       ELSE IF length(bs) < MAX_LEN
         THEN here \o mfn_descent(meta, split_atomic(leaf(bs, t.x)), bs, elt, hash)
         ELSE here
     ELSE IF t.tag = "Bin" THEN
       IF hash % 2 = 0
       THEN here \o mfn_descent(meta, t.l, prepend(0, t.bs), elt, hash \div 2)
       ELSE here \o mfn_descent(meta, t.r, prepend(1, t.bs), elt, hash \div 2)
     ELSE IF t.tag = "Name" /\ t.t.tag = "Art"
       THEN here \o mfn_descent(meta, force(t.t.a), bs, elt, hash)
     ELSE here

Descent(t, elt) == mfn_descent(RootOf(t).meta, RootOf(t).t, mtbs, elt, Hash(elt))

(***************************************************************************)
(* C30. extend terminates: for every trie reachable from empty(meta) by    *)
(* extends and every element, extend returns or panics after a descent of  *)
(* at most MAX_LEN levels; a retry after splitting a colliding Leaf is on  *)
(* the Bin at the same path and goes one level down, stopping at MAX_LEN;  *)
(* forced branching at a Nil happens only below min_depth <= MAX_LEN.      *)
(***************************************************************************)
C30_ExtendTerminates ==
  /\ MetaOf(trie).min_depth <= MAX_LEN
  /\ \A e \in SetElems :
       LET d == Descent(trie, e)
           r == extend(name_unit, trie, e)
       IN /\ Len(d) <= 2 * MAX_LEN + 3
          /\ d[1] = [tag |-> "Name", len |-> 0]
          /\ \A i \in 1..Len(d) : d[i].len <= MAX_LEN
          /\ \A i \in 1..(Len(d) - 1) :
               /\ d[i + 1].len >= d[i].len
               /\ d[i + 1].len <= d[i].len + 1
               /\ d[i].tag = "Bin" => d[i + 1].len = d[i].len + 1
               /\ d[i].tag = "Leaf" =>
                    /\ d[i].len < MAX_LEN
                    /\ d[i + 1] = [tag |-> "Bin", len |-> d[i].len]
               /\ d[i].tag = "Nil" =>
                    /\ d[i].len < MetaOf(trie).min_depth
                    /\ d[i + 1] = [tag |-> "Nil", len |-> d[i].len + 1]
          /\ d[Len(d)].tag \in {"Nil", "Leaf"}
          /\ r = Panic \/ Leaves(r) \subseteq Leaves(trie) \cup {e}

\* One extend runs into a Leaf that it splits down to path length MAX_LEN,
\* another is forced to branch at a Nil above min_depth.
C30_Witness ==
  /\ added # {}
  /\ \E e \in SetElems \ added :
       LET d == Descent(trie, e)
       IN /\ \E i \in 1..(Len(d) - 1) : d[i].tag = "Leaf"
          /\ d[Len(d)].len = MAX_LEN
  /\ \E e \in SetElems \ added :
       LET d == Descent(trie, e)
       IN \E i \in 1..(Len(d) - 1) : d[i].tag = "Nil"

(***************************************************************************)
(* The graph layer of src/src/graph.rs.  A node is a natural 1..NumNodes.  *)
(* The values the graph layer stores in tries are hashed and compared as   *)
(* wholes, and an element's payload is told from the unit payload by       *)
(* comparing it with Unit, so they are naturals: the pair (s, d) is the    *)
(* two-digit number s d in base Radix, and a Tree<Node> (an adjacency      *)
(* list held in the map) is the number whose digits, lowest first, are its *)
(* nodes.                                                                  *)
(***************************************************************************)
NumNodes == 2

MaxEdges == 2

GNodes == 1..NumNodes
Radix == NumNodes + 1

Pair(s, d) == s * Radix + d
Fst(p) == p \div Radix
Snd(p) == p % Radix

Edges == {Pair(s, d) : s \in GNodes, d \in GNodes}

NodeTrees == 1..(pow(Radix, MaxEdges) - 1)

(***************************************************************************)
(* adapton::engine::cell and adapton::collections: the Set view of the     *)
(* trie, List and Tree.  A list is the sequence of its items, an element   *)
(* or a name each; a tree holds the items of the list it was made of, and  *)
(* tree_fold_seq calls its leaf and name hooks on them in that order (the  *)
(* bin hook is the identity in every use).                                 *)
(***************************************************************************)
cell(nm, v) == [kind |-> "cell", nm |-> nm, val |-> v]

set_empty == empty(Meta(1))

set_add(set, x) == extend(name_unit, set, <<x, Unit>>)

ListElt(x) == [kind |-> "elt", x |-> x, nm |-> NoName]
ListName(nm) == [kind |-> "name", x |-> 0, nm |-> nm]

list_nil == << >>
list_cons(x, l) == <<ListElt(x)>> \o l
list_name_art(nm, l) == <<ListName(nm)>> \o l

tree_nil == [tag |-> "Tree", items |-> << >>]
tree_of_list(l) == [tag |-> "Tree", items |-> l]
list_of_tree(t) == t.items

tree_fold_seq(t) ==
  [i \in 1..Len(t.items) |->
     IF t.items[i].kind = "elt" THEN LeafEv(t.items[i].x) ELSE NameEv(t.items[i].nm)]

RECURSIVE node_tree_of_list(_)
node_tree_of_list(l) ==
  IF l = << >> THEN 0 ELSE Head(l) + Radix * node_tree_of_list(Tail(l))

RECURSIVE list_of_node_tree(_)
list_of_node_tree(t) ==
  IF t = 0 THEN << >> ELSE <<t % Radix>> \o list_of_node_tree(t \div Radix)

(***************************************************************************)
(* Graph: the edge-list representation.                                    *)
(***************************************************************************)
graph_name(nm, g) ==
  LET edge_list == list_of_tree(g.edge_tree)
      el == list_name_art(nm, edge_list)
  IN [edge_tree |-> tree_of_list(el)]

graph_empty == [edge_tree |-> tree_nil]

graph_add_edge(graph, nm, src, dst) ==
  LET edge_list == list_of_tree(graph.edge_tree)
      el == list_name_art(nm, edge_list)
      el2 == list_cons(Pair(src, dst), el)
  IN [edge_tree |-> tree_of_list(el2)]

\* The hooks of Graph::edges applied to the calls of tree_fold_seq.
RECURSIVE graph_edges_hooks(_, _)
graph_edges_hooks(calls, set) ==
  IF calls = << >> \/ set = Panic THEN set
  ELSE LET c == Head(calls)
           next == IF c.ev = "leaf" THEN set_add(set, c.x)
                   ELSE name(c.nm, art(cell(c.nm, set)))
       IN graph_edges_hooks(Tail(calls), next)

graph_edges(graph) == graph_edges_hooks(tree_fold_seq(graph.edge_tree), set_empty)

\* The hooks of the vertices folds applied to the calls of trie_fold_seq
\* over a set of edges.
RECURSIVE graph_vertices_hooks(_, _)
graph_vertices_hooks(calls, set) ==
  IF calls = << >> \/ set = Panic THEN set
  ELSE LET c == Head(calls)
           next == IF c.ev = "leaf"
                   THEN LET add_src == set_add(set, Fst(c.x[1]))
                        IN set_add(add_src, Snd(c.x[1]))
                   ELSE IF c.ev = "bin" THEN set
                   ELSE name(c.nm, art(cell(c.nm, set)))
       IN graph_vertices_hooks(Tail(calls), next)

graph_vertices(graph) ==
  LET edge_trie == graph_edges(graph)
  IN IF edge_trie = Panic THEN Panic
     ELSE graph_vertices_hooks(trie_fold_seq(edge_trie, << >>), set_empty)

RECURSIVE graph_reverse_hooks(_, _)
graph_reverse_hooks(calls, g) ==
  IF calls = << >> THEN g
  ELSE LET c == Head(calls)
           next == IF c.ev = "leaf"
                   THEN graph_add_edge(g, name_unit, Snd(c.x[1]), Fst(c.x[1]))
                   ELSE IF c.ev = "bin" THEN g
                   ELSE graph_name(c.nm, g)
       IN graph_reverse_hooks(Tail(calls), next)

graph_reverse_edges(graph) ==
  LET es == graph_edges(graph)
  IN graph_reverse_hooks(trie_fold_seq(es, << >>), graph_empty)

(***************************************************************************)
(* AdjacencyGraph: a Map trie from a source node to the Tree of its        *)
(* destinations.  add_edge looks the source up with MapElim::find and      *)
(* extends the map with the pair (src, tree of the longer list).           *)
(***************************************************************************)
adj_name(nm, g) ==
  IF g.adjacency_map = Panic THEN g
  ELSE [adjacency_map |-> name(nm, art(cell(nm, g.adjacency_map)))]

adj_empty == [adjacency_map |-> map_empty]

adj_add_edge(graph, nm, src, dst) ==
  IF graph.adjacency_map = Panic THEN graph
  ELSE
    LET src_adj_list == map_find(graph.adjacency_map, src)
    IN IF src_adj_list = NoneV
       THEN LET adj == <<dst>>
                edge_tree == node_tree_of_list(adj)
            IN [adjacency_map |-> extend(nm, graph.adjacency_map, <<src, edge_tree>>)]
       ELSE LET adj == list_of_node_tree(src_adj_list.v)
                adj2 == <<dst>> \o adj
                edge_tree == node_tree_of_list(adj2)
            IN [adjacency_map |-> extend(nm, graph.adjacency_map, <<src, edge_tree>>)]

\* The inner folds of AdjacencyGraph::edges and vertices over the
\* destinations of one entry.
RECURSIVE adj_edges_dsts(_, _, _)
adj_edges_dsts(src, dsts, set) ==
  IF dsts = << >> \/ set = Panic THEN set
  ELSE adj_edges_dsts(src, Tail(dsts), set_add(set, Pair(src, Head(dsts))))

RECURSIVE adj_vertices_dsts(_, _)
adj_vertices_dsts(dsts, set) ==
  IF dsts = << >> \/ set = Panic THEN set
  ELSE adj_vertices_dsts(Tail(dsts), set_add(set, Head(dsts)))

RECURSIVE adj_edges_hooks(_, _)
adj_edges_hooks(calls, set) ==
  IF calls = << >> \/ set = Panic THEN set
  ELSE LET c == Head(calls)
           next == IF c.ev = "leaf"
                   THEN adj_edges_dsts(c.x[1], list_of_node_tree(c.x[2]), set)
                   ELSE IF c.ev = "bin" THEN set
                   ELSE name(c.nm, art(cell(c.nm, set)))
       IN adj_edges_hooks(Tail(calls), next)

adj_edges(graph) ==
  IF graph.adjacency_map = Panic THEN Panic
  ELSE adj_edges_hooks(trie_fold_seq(graph.adjacency_map, << >>), set_empty)

RECURSIVE adj_vertices_hooks(_, _)
adj_vertices_hooks(calls, set) ==
  IF calls = << >> \/ set = Panic THEN set
  ELSE LET c == Head(calls)
           next == IF c.ev = "leaf"
                   THEN LET src_set == set_add(set, c.x[1])
                        IN adj_vertices_dsts(list_of_node_tree(c.x[2]), src_set)
                   ELSE IF c.ev = "bin" THEN set
                   ELSE name(c.nm, art(cell(c.nm, set)))
       IN adj_vertices_hooks(Tail(calls), next)

adj_vertices(graph) ==
  IF graph.adjacency_map = Panic THEN Panic
  ELSE adj_vertices_hooks(trie_fold_seq(graph.adjacency_map, << >>), set_empty)

RECURSIVE adj_reverse_hooks(_, _)
adj_reverse_hooks(calls, g) ==
  IF calls = << >> THEN g
  ELSE LET c == Head(calls)
           next == IF c.ev = "leaf"
                   THEN adj_add_edge(g, name_unit, Snd(c.x[1]), Fst(c.x[1]))
                   ELSE IF c.ev = "bin" THEN g
                   ELSE adj_name(c.nm, g)
       IN adj_reverse_hooks(Tail(calls), next)

adj_reverse_edges(graph) ==
  LET es == adj_edges(graph)
  IN IF es = Panic THEN [adjacency_map |-> Panic]
     ELSE adj_reverse_hooks(trie_fold_seq(es, << >>), adj_empty)

RECURSIVE adjacency_of_edge_list_hooks(_, _)
adjacency_of_edge_list_hooks(calls, g) ==
  IF calls = << >> THEN g
  ELSE LET c == Head(calls)
           next == IF c.ev = "leaf"
                   THEN adj_add_edge(g, name_unit, Fst(c.x), Snd(c.x))
                   ELSE adj_name(c.nm, g)
       IN adjacency_of_edge_list_hooks(Tail(calls), next)

adjacency_of_edge_list(el_graph) ==
  adjacency_of_edge_list_hooks(tree_fold_seq(el_graph.edge_tree), adj_empty)

(***************************************************************************)
(* Observations of a graph: the pairs and nodes that SetElim::is_mem finds *)
(* in a set, and the entries of an adjacency map.                          *)
(***************************************************************************)
EdgeSet(set) == {p \in Edges : mem(set, p)}
VertexSet(set) == {n \in GNodes : mem(set, n)}
Entries(g) == Leaves(g.adjacency_map)
NumCalls(g) == Cardinality({i \in 1..Len(g.edge_tree.items) : g.edge_tree.items[i].kind = "elt"})

(***************************************************************************)
(* The state machine of the two graph representations: both start empty    *)
(* and each add_edge is made on both.  The hash of a key is drawn from the *)
(* linear forms u * first + v * second over its two components, modulo     *)
(* 2^(MAX_LEN + 1): injective ones, ones that ignore a component, and the  *)
(* constant one.                                                           *)
(***************************************************************************)
HashSpace == pow(2, MAX_LEN + 1)

GraphNames == {name_of_usize(0)}

InitGraph ==
  /\ \E u \in {0, 1, Radix}, v \in {0, 1} :
       hk = [k \in GNodes \cup Edges |-> (u * Fst(k) + v * Snd(k)) % HashSpace]
  /\ \E u \in {0, 1}, v \in {0, 1, Radix} :
       hkv = [e \in GNodes \X NodeTrees |-> (u * e[1] + v * e[2]) % HashSpace]
  /\ din = 1
  /\ trie = [el |-> graph_empty, adj |-> adj_empty]
  /\ added = {}
  /\ status = "ok"

AddEdge(nm, src, dst) ==
  /\ status = "ok"
  /\ NumCalls(trie.el) < MaxEdges
  /\ LET el == graph_add_edge(trie.el, nm, src, dst)
         adj == adj_add_edge(trie.adj, nm, src, dst)
     IN IF adj.adjacency_map = Panic
        THEN /\ status' = "panic"
             /\ trie' = trie
        ELSE /\ status' = "ok"
             /\ trie' = [el |-> el, adj |-> adj]
  /\ added' = added \cup {Pair(src, dst)}
  /\ UNCHANGED <<hk, hkv, din>>

NextGraph == \E nm \in GraphNames, src \in GNodes, dst \in GNodes : AddEdge(nm, src, dst)

SpecGraph == InitGraph /\ [][NextGraph]_vars

(***************************************************************************)
(* C21. The edge set is exact and directed: for both Graph and             *)
(* AdjacencyGraph, after any sequence of add_edge calls from empty(),      *)
(* edges(g) contains (s, d) iff add_edge was called with src = s and       *)
(* dst = d; the reversed pair is not a member unless it was added itself.  *)
(***************************************************************************)
C21_EdgeSetExact ==
  /\ EdgeSet(graph_edges(trie.el)) = added
  /\ EdgeSet(adj_edges(trie.adj)) = added
  /\ \A s \in GNodes, d \in GNodes :
       Pair(s, d) \notin added =>
         /\ ~mem(graph_edges(trie.el), Pair(s, d))
         /\ ~mem(adj_edges(trie.adj), Pair(s, d))

(***************************************************************************)
(* C22. adjacency_of_edge_list preserves the graph: for every edge-list    *)
(* Graph g built by add_edge, the AdjacencyGraph it returns has the same   *)
(* edge set and vertex set as g; its edges and vertices are empty iff      *)
(* those of g are.                                                         *)
(***************************************************************************)
C22_ConversionPreserves ==
  LET a == adjacency_of_edge_list(trie.el)
  IN /\ EdgeSet(adj_edges(a)) = EdgeSet(graph_edges(trie.el))
     /\ VertexSet(adj_vertices(a)) = VertexSet(graph_vertices(trie.el))
     /\ is_empty(adj_edges(a)) <=> is_empty(graph_edges(trie.el))
     /\ is_empty(adj_vertices(a)) <=> is_empty(graph_vertices(trie.el))

\* The pairs of a set of edges, reversed.
Rev(S) == {Pair(Snd(p), Fst(p)) : p \in S}

(***************************************************************************)
(* C23. reverse_edges reverses exactly the edge set: for both              *)
(* representations and every graph g built by add_edge,                    *)
(* edges(reverse_edges(g)) = {(d, s) : (s, d) in edges(g)}, so reversing   *)
(* twice yields a graph with the edge set of g.                            *)
(***************************************************************************)
C23_ReverseExact ==
  LET rel == graph_reverse_edges(trie.el)
      radj == adj_reverse_edges(trie.adj)
  IN /\ EdgeSet(graph_edges(rel)) = Rev(EdgeSet(graph_edges(trie.el)))
     /\ EdgeSet(adj_edges(radj)) = Rev(EdgeSet(adj_edges(trie.adj)))
     /\ EdgeSet(graph_edges(graph_reverse_edges(rel))) = EdgeSet(graph_edges(trie.el))
     /\ EdgeSet(adj_edges(adj_reverse_edges(radj))) = EdgeSet(adj_edges(trie.adj))

(***************************************************************************)
(* C27. The adjacency representation is a finite map: after any sequence   *)
(* of AdjacencyGraph::add_edge calls the adjacency map holds at most one   *)
(* entry (Leaf) per source node, and that entry's adjacency list contains  *)
(* every destination added for that source.                                *)
(***************************************************************************)
C27_AdjacencyIsMap ==
  \A s \in GNodes :
    LET es == {x \in Entries(trie.adj) : x[1] = s}
        dsts == {Snd(p) : p \in {q \in added : Fst(q) = s}}
    IN /\ Cardinality(es) <= 1
       /\ dsts # {} => es # {}
       /\ \A x \in es :
            LET l == list_of_node_tree(x[2])
            IN dsts \subseteq {l[i] : i \in 1..Len(l)}

====
